---- MODULE Spec2Model ----
(***************************************************************************)
(* nope.db: StorageManager (src/unnamed/part_000, lines 396-655), the      *)
(* promise-chain operation queue and the path-addressed JSON document       *)
(* store behind the NopeDB facade (src/src/app.ts).                         *)
(*                                                                          *)
(* Strings are sequences of symbols.  The symbol Sep is the separator       *)
(* character; every other symbol stands for a non-empty run of characters   *)
(* that holds no separator ("a", "length", "constructor", "0", ...).        *)
(* JavaScript values are records of a type tag and one payload per type;   *)
(* an array also carries x, its own properties that are not indices.       *)
(***************************************************************************)
EXTENDS Integers, Sequences, FiniteSets, TLC

VARIABLES disk, tasks, trace, lastCall

vars == <<disk, tasks, trace, lastCall>>

(***************************************************************************)
(* Bounds of the model.                                                     *)
(***************************************************************************)
MaxTasks == 2

\* The operations one caller submits in SpecBak (a backup, what happens
\* between, the load of the backup and the read of the document).
MaxBakTasks == 4

(***************************************************************************)
(* JavaScript values.  A value is a record of its type tag t and one        *)
(* payload field per type (n: number, s: string, b: boolean, m: the own     *)
(* properties of an object, a: the elements of an array, x: the own         *)
(* properties of an array that are not indices); the fields a type does     *)
(* not use hold the defaults of Blank.                                      *)
(***************************************************************************)
NoProps == [k \in {} |-> 0]

Blank == [t |-> "undefined", n |-> 0, s |-> "", b |-> FALSE, m |-> NoProps,
          a |-> <<>>, x |-> NoProps]

Undef == Blank
Null == [Blank EXCEPT !.t = "null"]
Num(n) == [Blank EXCEPT !.t = "number", !.n = n]
Str(s) == [Blank EXCEPT !.t = "string", !.s = s]
Bool(b) == [Blank EXCEPT !.t = "boolean", !.b = b]
Fn(name) == [Blank EXCEPT !.t = "function", !.s = name]
Map(f) == [Blank EXCEPT !.t = "object", !.m = f]
Arr(s) == [Blank EXCEPT !.t = "array", !.a = s]
ErrVal(e) == [Blank EXCEPT !.t = "error", !.s = e]

EmptyMap == Map(NoProps)

\* typeof v === 'object' && v !== null  (arrays are objects, functions are not)
IsObject(v) == v.t \in {"object", "array"}

\* Array.isArray(v)
IsArray(v) == v.t = "array"

\* The outcome of a computation that may throw.
Ok(v) == [ok |-> TRUE, v |-> v]
Throw(e) == [ok |-> FALSE, v |-> ErrVal(e)]

(***************************************************************************)
(* Property names: a name is a string, that is a sequence of symbols.       *)
(***************************************************************************)
Sep == "."

Key(s) == <<s>>

\* Canonical array indices within the model's range, as strings.
IndexOf == (Key("0") :> 0) @@ (Key("1") :> 1) @@ (Key("2") :> 2)

IsIndex(k) == k \in DOMAIN IndexOf

\* Properties every object inherits from Object.prototype / Array.prototype.
ProtoNames == {Key("constructor"), Key("toString")}

ProtoGet(v, k) ==
  IF k \in ProtoNames
  THEN Fn(IF k = Key("constructor")
          THEN (IF v.t = "array" THEN "Array" ELSE "Object")
          ELSE "toString")
  ELSE Undef

\* node[k]
PropGet(node, k) ==
  CASE node.t = "object" ->
         IF k \in DOMAIN node.m THEN node.m[k] ELSE ProtoGet(node, k)
    [] node.t = "array" ->
         IF IsIndex(k)
         THEN (IF IndexOf[k] < Len(node.a) THEN node.a[IndexOf[k] + 1] ELSE Undef)
         ELSE IF k = Key("length") THEN Num(Len(node.a))
         ELSE IF k \in DOMAIN node.x THEN node.x[k]
         ELSE ProtoGet(node, k)
    [] OTHER -> Undef

\* ToNumber(v) as array.length = v applies it; NaN is -1 here (both are
\* rejected as a length).
RECURSIVE ToNumber(_)
ToNumber(v) ==
  CASE v.t = "number" -> v.n
    [] v.t = "null" -> 0
    [] v.t = "boolean" -> IF v.b THEN 1 ELSE 0
    [] v.t = "array" ->
         IF Len(v.a) = 0 THEN 0
         ELSE IF Len(v.a) = 1 /\ v.a[1].t \in {"number", "array"} THEN ToNumber(v.a[1])
         ELSE IF Len(v.a) = 1 /\ v.a[1].t \in {"null", "undefined"} THEN 0
         ELSE -1
    [] OTHER -> -1

Holes(n) == [i \in 1..n |-> Undef]

SetLength(node, n) ==
  IF n <= Len(node.a)
  THEN [node EXCEPT !.a = SubSeq(node.a, 1, n)]
  ELSE [node EXCEPT !.a = node.a \o Holes(n - Len(node.a))]

WithProp(f, k, val) == [j \in DOMAIN f \cup {k} |-> IF j = k THEN val ELSE f[j]]

WithoutProp(f, k) == [j \in DOMAIN f \ {k} |-> f[j]]

\* node[k] = val in strict mode: the node after the assignment, or the throw.
PropSet(node, k, val) ==
  CASE node.t = "object" -> Ok([node EXCEPT !.m = WithProp(node.m, k, val)])
    [] node.t = "array" ->
         IF IsIndex(k)
         THEN Ok([SetLength(node, IF IndexOf[k] < Len(node.a) THEN Len(node.a)
                                   ELSE IndexOf[k] + 1)
                    EXCEPT !.a[IndexOf[k] + 1] = val])
         ELSE IF k = Key("length")
         THEN (IF ToNumber(val) >= 0 THEN Ok(SetLength(node, ToNumber(val)))
               ELSE Throw("RangeError"))
         ELSE Ok([node EXCEPT !.x = WithProp(node.x, k, val)])
    [] OTHER -> Throw("TypeError")

\* delete node[k] in strict mode.
PropDelete(node, k) ==
  CASE node.t = "object" -> Ok([node EXCEPT !.m = WithoutProp(node.m, k)])
    [] node.t = "array" ->
         IF IsIndex(k)
         THEN Ok(IF IndexOf[k] < Len(node.a)
                 THEN [node EXCEPT !.a[IndexOf[k] + 1] = Undef]
                 ELSE node)
         ELSE IF k = Key("length") THEN Throw("TypeError")
         ELSE Ok([node EXCEPT !.x = WithoutProp(node.x, k)])
    [] OTHER -> Ok(node)

(***************************************************************************)
(* Files.  A file is absent, holds text that JSON.parse rejects, or holds   *)
(* the JSON text of a document; the text is kept as the tree it denotes     *)
(* (indentation is not modelled).                                           *)
(***************************************************************************)
Absent == [t |-> "absent", v |-> Undef]
Garbage == [t |-> "garbage", v |-> Undef]
Json(d) == [t |-> "json", v |-> d]

DbFile == <<"db", Sep, "json">>
BakJson == <<"bak", Sep, "json">>
BakTxt == <<"bak", Sep, "txt">>
Paths == {DbFile, BakJson, BakTxt}

\* JSON.stringify(data): entries that are undefined or functions are left
\* out of objects and become null in arrays; an array keeps only its
\* elements.
RECURSIVE JSONstringify(_)
JSONstringify(d) ==
  CASE d.t = "object" ->
         Map([k \in {j \in DOMAIN d.m : d.m[j].t \notin {"undefined", "function"}}
                |-> JSONstringify(d.m[k])])
    [] d.t = "array" ->
         Arr([i \in 1..Len(d.a) |->
                IF d.a[i].t \in {"undefined", "function"} THEN Null
                ELSE JSONstringify(d.a[i])])
    [] OTHER -> d

\* JSON.parse(text)
JSONparse(content) ==
  IF content.t = "json" THEN Ok(content.v) ELSE Throw("SyntaxError")

(***************************************************************************)
(* Key paths.                                                               *)
(***************************************************************************)
StartsWith(s, p) == Len(s) >= Len(p) /\ SubSeq(s, 1, Len(p)) = p

EndsWith(s, p) == Len(s) >= Len(p) /\ SubSeq(s, Len(s) - Len(p) + 1, Len(s)) = p

Includes(s, p) == \E i \in 1..(Len(s) - Len(p) + 1) : SubSeq(s, i, i + Len(p) - 1) = p

\* id.split(this.separator)
RECURSIVE Split(_)
Split(s) ==
  IF \A i \in 1..Len(s) : s[i] # Sep
  THEN <<s>>
  ELSE LET i == CHOOSE j \in 1..Len(s) : s[j] = Sep /\ \A m \in 1..(j - 1) : s[m] # Sep
       IN <<SubSeq(s, 1, i - 1)>> \o Split(SubSeq(s, i + 1, Len(s)))

\* _validateID(id) does not throw
ValidID(id) ==
  ~ (\/ id = <<>>
     \/ StartsWith(id, <<Sep>>)
     \/ EndsWith(id, <<Sep>>)
     \/ Includes(id, <<Sep, Sep>>))

RECURSIVE FindWalk(_, _)
FindWalk(current, parts) ==
  IF parts = <<>> THEN current
  ELSE IF ~IsObject(current) THEN Null
  ELSE FindWalk(PropGet(current, Head(parts)), Tail(parts))

\* _find(data, id)
Find(data, id) ==
  IF ~ValidID(id) THEN Throw("nonValidID")
  ELSE LET current == FindWalk(data, Split(id))
       IN Ok(IF current.t = "undefined" THEN Null ELSE current)

RECURSIVE SetWalk(_, _, _)
SetWalk(current, parts, value) ==
  LET part == Head(parts) IN
  IF Len(parts) = 1 THEN PropSet(current, part, value)
  ELSE LET made == IF current.t \in {"null", "undefined"} THEN Throw("TypeError")
                   ELSE IF IsObject(PropGet(current, part)) THEN Ok(current)
                   ELSE PropSet(current, part, EmptyMap)
       IN IF ~made.ok THEN made
          ELSE LET sub == SetWalk(PropGet(made.v, part), Tail(parts), value)
               IN IF ~sub.ok THEN sub ELSE PropSet(made.v, part, sub.v)

\* _findAndSet(data, id, value): the mutated data, or the throw
FindAndSet(data, id, value) ==
  IF ~ValidID(id) THEN Throw("nonValidID")
  ELSE SetWalk(data, Split(id), value)

\* The loop of delete(id): whether an entry was removed, and the data after.
RECURSIVE DeleteWalk(_, _)
DeleteWalk(current, parts) ==
  LET part == Head(parts) IN
  IF ~IsObject(current) THEN Ok([removed |-> FALSE, node |-> current])
  ELSE IF Len(parts) = 1
  THEN IF PropGet(current, part).t = "undefined"
       THEN Ok([removed |-> FALSE, node |-> current])
       ELSE LET del == PropDelete(current, part)
            IN IF ~del.ok THEN del ELSE Ok([removed |-> TRUE, node |-> del.v])
  ELSE LET sub == DeleteWalk(PropGet(current, part), Tail(parts))
       IN IF ~sub.ok \/ ~sub.v.removed
          THEN (IF sub.ok THEN Ok([removed |-> FALSE, node |-> current]) ELSE sub)
          ELSE Ok([removed |-> TRUE, node |-> PropSet(current, part, sub.v.node).v])

(***************************************************************************)
(* The bodies of the public operations.  A body runs in three stretches     *)
(* separated by its awaits: the checks before the first file access         *)
(* (PreCheck), the code between the read and the write (AfterRead), and     *)
(* the return after the write.  An outcome says how a stretch ends.         *)
(***************************************************************************)
Resolve(res) == [kind |-> "resolve", res |-> res, file |-> <<>>, data |-> Undef]
Reject(e) == [kind |-> "reject", res |-> ErrVal(e), file |-> <<>>, data |-> Undef]
WriteThen(file, data, res) == [kind |-> "write", res |-> res, file |-> file, data |-> data]
ReadFrom(file) == [kind |-> "read", res |-> Undef, file |-> file, data |-> Undef]
AccessFile == [kind |-> "access", res |-> Undef, file |-> DbFile, data |-> Undef]

\* Mutant of ClearBody: the confirmation is not asked for.
ClearBodyUnconfirmed(confirm) == WriteThen(DbFile, EmptyMap, Bool(TRUE))

\* The body of clear(options), confirm being options?.confirm.
ClearBody(confirm) ==
  IF confirm # Bool(TRUE) THEN Reject("clearConfirm")
  ELSE WriteThen(DbFile, EmptyMap, Bool(TRUE))

\* The statements of a body that precede its first await.
PreCheck(op, id, val) ==
  CASE op = "init" -> AccessFile
    [] op \in {"set", "push"} ->
         IF id = <<>> THEN Reject("undefinedID")
         ELSE IF val = Undef THEN Reject("undefinedValue")
         ELSE ReadFrom(DbFile)
    [] op \in {"get", "has", "delete"} ->
         IF id = <<>> THEN Reject("undefinedID") ELSE ReadFrom(DbFile)
    [] op = "add" ->
         IF id = <<>> THEN Reject("undefinedID")
         ELSE IF val = Undef THEN Reject("undefinedValue")
         ELSE IF val.t # "number" THEN Reject("mustBeANumber")
         ELSE ReadFrom(DbFile)
    [] op = "all" -> ReadFrom(DbFile)
    [] op = "clear" -> ClearBody(val)
    [] op = "backup" ->
         IF id = <<>> THEN Reject("backupPath")
         ELSE IF ~EndsWith(id, <<Sep, "json">>) THEN Reject("backupExtension")
         ELSE ReadFrom(DbFile)
    [] op = "loadBackup" ->
         IF id = <<>> THEN Reject("backupPath") ELSE ReadFrom(id)

SetBody(data, id, value) ==
  LET set == FindAndSet(data, id, value)
  IN IF ~set.ok THEN Reject(set.v.s) ELSE WriteThen(DbFile, set.v, value)

GetBody(data, id) ==
  LET found == Find(data, id)
  IN IF ~found.ok THEN Reject(found.v.s) ELSE Resolve(found.v)

\* Mutant of AddBody: the type of the existing value is not checked.
AddBodyUnchecked(data, id, value) ==
  LET found == Find(data, id) IN
  IF ~found.ok THEN Reject(found.v.s)
  ELSE LET newVal == Num(found.v.n + value.n)
           set == FindAndSet(data, id, newVal)
       IN IF ~set.ok THEN Reject(set.v.s) ELSE WriteThen(DbFile, set.v, newVal)

AddBody(data, id, value) ==
  LET found == Find(data, id) IN
  IF ~found.ok THEN Reject(found.v.s)
  ELSE IF found.v # Null /\ found.v.t # "number" THEN Reject("dataNotANumber")
  ELSE LET currentVal == IF found.v = Null THEN 0 ELSE found.v.n
           newVal == Num(currentVal + value.n)
           set == FindAndSet(data, id, newVal)
       IN IF ~set.ok THEN Reject(set.v.s) ELSE WriteThen(DbFile, set.v, newVal)

\* Mutant of HasBody: presence decided by truthiness of the value found.
HasBodyTruthy(data, id) ==
  LET found == Find(data, id)
  IN IF ~found.ok THEN Reject(found.v.s)
     ELSE Resolve(Bool(found.v \notin {Null, Num(0), Bool(FALSE), Str("")}))

HasBody(data, id) ==
  LET found == Find(data, id)
  IN IF ~found.ok THEN Reject(found.v.s) ELSE Resolve(Bool(found.v # Null))

DeleteBody(data, id) ==
  LET walk == DeleteWalk(data, Split(id)) IN
  IF ~walk.ok THEN Reject(walk.v.s)
  ELSE IF ~walk.v.removed THEN Resolve(Bool(FALSE))
  ELSE WriteThen(DbFile, walk.v.node, Bool(TRUE))

\* Mutant of PushBody: whatever the path holds that is not an array is taken
\* for an empty array.
PushBodyUnchecked(data, id, value) ==
  LET found == Find(data, id) IN
  IF ~found.ok THEN Reject(found.v.s)
  ELSE LET arr == IF IsArray(found.v) THEN found.v ELSE Arr(<<>>)
           pushed == [arr EXCEPT !.a = Append(arr.a, value)]
           set == FindAndSet(data, id, pushed)
       IN IF ~set.ok THEN Reject(set.v.s) ELSE WriteThen(DbFile, set.v, pushed)

PushBody(data, id, value) ==
  LET found == Find(data, id) IN
  IF ~found.ok THEN Reject(found.v.s)
  ELSE IF found.v # Null /\ ~IsArray(found.v) THEN Reject("mustBeArray")
  ELSE LET arr == IF found.v = Null THEN Arr(<<>>) ELSE found.v
           pushed == [arr EXCEPT !.a = Append(arr.a, value)]
           set == FindAndSet(data, id, pushed)
       IN IF ~set.ok THEN Reject(set.v.s) ELSE WriteThen(DbFile, set.v, pushed)

\* Mutant of BackupBody: the snapshot is written over the database file too,
\* as an empty document.
BackupBodyOverPrimary(data, filePath) == WriteThen(DbFile, EmptyMap, Bool(TRUE))

\* Mutant of BackupBody: the snapshot holds the top-level scalars only.
BackupBodyShallow(data, filePath) ==
  WriteThen(filePath,
            Map([k \in {j \in DOMAIN data.m : ~IsObject(data.m[j])} |-> data.m[k]]),
            Bool(TRUE))

BackupBody(data, filePath) == WriteThen(filePath, data, Bool(TRUE))

\* The code that follows a successful _read(), data being what it returned.
AfterRead(op, id, val, data) ==
  CASE op = "set" -> SetBody(data, id, val)
    [] op = "get" -> GetBody(data, id)
    [] op = "add" -> AddBody(data, id, val)
    [] op = "has" -> HasBody(data, id)
    [] op = "all" -> Resolve(data)
    [] op = "delete" -> DeleteBody(data, id)
    [] op = "push" -> PushBody(data, id, val)
    [] op = "backup" -> BackupBody(data, id)

\* Mutant of LoadBackupBody: a backup that cannot be read or parsed loads
\* as the empty document.
LoadBackupBodyLenient(content) ==
  WriteThen(DbFile, IF content.t = "json" THEN content.v ELSE EmptyMap, Bool(TRUE))

\* The body of loadBackup(filePath) after fs.readFile, content being what
\* the file holds.
LoadBackupBody(content) ==
  IF content.t = "json" THEN WriteThen(DbFile, JSONparse(content).v, Bool(TRUE))
  ELSE Reject("backupRead")

\* Mutant of ReadOutcome: a database file that does not parse reads as the
\* empty document.
ReadOutcomeLenient(op, id, val, content) ==
  IF op = "loadBackup" THEN LoadBackupBody(content)
  ELSE IF content.t = "absent"
       THEN [kind |-> "create", res |-> Undef, file |-> DbFile, data |-> EmptyMap]
       ELSE AfterRead(op, id, val, IF content.t = "json" THEN content.v ELSE EmptyMap)

\* Mutant of ReadOutcome: a database file that does not parse is replaced by
\* the empty document, as a missing file is.
ReadOutcomeResets(op, id, val, content) ==
  IF op = "loadBackup" THEN LoadBackupBody(content)
  ELSE IF content.t # "json"
       THEN [kind |-> "create", res |-> Undef, file |-> DbFile, data |-> EmptyMap]
       ELSE AfterRead(op, id, val, content.v)

\* Mutant of ReadOutcome: a missing database file is reported as an error.
ReadOutcomeMissingFails(op, id, val, content) ==
  IF op = "loadBackup" THEN LoadBackupBody(content)
  ELSE IF content.t = "absent" THEN Reject("readError")
       ELSE IF ~JSONparse(content).ok THEN Reject("parseError")
       ELSE AfterRead(op, id, val, JSONparse(content).v)

\* fs.readFile + JSON.parse of _read() and of loadBackup(), on a file that
\* exists; the ENOENT branch of _read() is the outcome "create".
ReadOutcome(op, id, val, content) ==
  IF op = "loadBackup" THEN LoadBackupBody(content)
  ELSE IF content.t = "absent"
       THEN [kind |-> "create", res |-> Undef, file |-> DbFile, data |-> EmptyMap]
       ELSE IF ~JSONparse(content).ok THEN Reject("parseError")
       ELSE AfterRead(op, id, val, JSONparse(content).v)

(***************************************************************************)
(* The queue.  tasks[i] is the promise chain of store instance i, in the    *)
(* order of the _enqueue calls; the tail of the chain (this.queue) is its   *)
(* last element.  A task is queued until its turn comes, running while its  *)
(* body is between awaits, then resolved or rejected.  `at` is the await    *)
(* the body is suspended on, or how it settled; `pre` is the content of the *)
(* files when the body started.                                             *)
(***************************************************************************)
Settled == {"resolved", "rejected"}

NewTask(api, op, id, val) ==
  [api |-> api, op |-> op, id |-> id, val |-> val, st |-> "queued",
   at |-> Resolve(Undef), pre |-> [p \in Paths |-> Absent]]

\* The task the constructor enqueues.
InitTask == NewTask("constructor", "init", <<>>, Undef)

\* Mutants of Gate: a chain that does not wait for its tail, and a chain
\* without the catch, which hands a rejection on to the next task.
GateNoWait(prevSt) == "run"

GateStartedIsEnough(prevSt) == IF prevSt # "queued" THEN "run" ELSE "wait"

GateNoCatch(prevSt) ==
  IF prevSt = "resolved" THEN "run" ELSE IF prevSt = "rejected" THEN "skip" ELSE "wait"

GateRejectedBlocks(prevSt) == IF prevSt = "resolved" THEN "run" ELSE "wait"

\* this.queue.catch(() => { }).then(task): what becomes of the next task,
\* given the state of the promise it is chained on.
Gate(prevSt) == IF prevSt \in Settled THEN "run" ELSE "wait"

\* Mutant of PrevSt: one chain for all the instances, a task waiting also
\* for the running task of any other instance.
PrevStShared(i, k) ==
  IF \E j \in DOMAIN tasks \ {i} : \E m \in 1..Len(tasks[j]) : tasks[j][m].st = "running"
  THEN "running"
  ELSE IF k = 1 THEN "resolved" ELSE tasks[i][k - 1].st

\* The state of the promise task k of instance i is chained on: the task
\* enqueued before it on the same instance (Promise.resolve() for the first).
PrevSt(i, k) == IF k = 1 THEN "resolved" ELSE tasks[i][k - 1].st

\* A body that reached an outcome: suspended on an await, or settled.
Advance(task, outcome) ==
  [task EXCEPT !.at = outcome,
               !.st = CASE outcome.kind = "resolve" -> "resolved"
                        [] outcome.kind = "reject" -> "rejected"
                        [] OTHER -> "running"]

Accessed(i, k, acc) == trace' = Append(trace, [inst |-> i, task |-> k, acc |-> acc])

Running(i, k, kind) == tasks[i][k].st = "running" /\ tasks[i][k].at.kind = kind

\* A public method is called.  subtract() checks its operand before it
\* delegates to add(), outside the queue; every other method only enqueues.
Submit(i, c) ==
  /\ IF c.api = "subtract" /\ c.val.t # "number"
     THEN /\ lastCall' = "threw"
          /\ UNCHANGED tasks
     ELSE /\ lastCall' = "handle"
          /\ tasks' = [tasks EXCEPT ![i] = Append(@,
                         IF c.api = "subtract"
                         THEN NewTask("subtract", "add", c.id, Num(0 - c.val.n))
                         ELSE NewTask(c.api, c.api, c.id, c.val))]
  /\ UNCHANGED <<disk, trace>>

Call(i, c) == Len(tasks[i]) < MaxTasks + 1 /\ Submit(i, c)

\* The chain lets task k start: its body runs up to its first await.
Start(i, k) ==
  /\ tasks[i][k].st = "queued"
  /\ Gate(PrevSt(i, k)) # "wait"
  /\ tasks' = [tasks EXCEPT ![i][k] =
                 IF Gate(PrevSt(i, k)) = "run"
                 THEN [Advance(@, PreCheck(@.op, @.id, @.val)) EXCEPT !.pre = disk]
                 ELSE Advance(@, [tasks[i][k - 1].at EXCEPT !.kind = "reject"])]
  /\ UNCHANGED <<disk, trace, lastCall>>

\* Mutant of AccessStep: a missing database file is left missing.
AccessStepNoCreate(i, k) ==
  /\ Running(i, k, "access")
  /\ tasks' = [tasks EXCEPT ![i][k] = Advance(@, Resolve(Undef))]
  /\ Accessed(i, k, "access")
  /\ UNCHANGED <<disk, lastCall>>

\* fs.access(this.file) of the constructor's task returns.
AccessStep(i, k) ==
  /\ Running(i, k, "access")
  /\ tasks' = [tasks EXCEPT ![i][k] =
                 Advance(@, IF disk[DbFile] = Absent
                            THEN [kind |-> "create", res |-> Undef, file |-> DbFile,
                                  data |-> EmptyMap]
                            ELSE Resolve(Undef))]
  /\ Accessed(i, k, "access")
  /\ UNCHANGED <<disk, lastCall>>

\* fs.readFile returns and the body runs on to its next await.
ReadStep(i, k) ==
  /\ Running(i, k, "read")
  /\ tasks' = [tasks EXCEPT ![i][k] =
                 Advance(@, ReadOutcome(@.op, @.id, @.val, disk[@.at.file]))]
  /\ Accessed(i, k, "read")
  /\ UNCHANGED <<disk, lastCall>>

\* The file was missing: _write({}) returns and the body runs on with {}.
CreateStep(i, k) ==
  /\ Running(i, k, "create")
  /\ disk' = [disk EXCEPT ![DbFile] = Json(JSONstringify(EmptyMap))]
  /\ tasks' = [tasks EXCEPT ![i][k] =
                 Advance(@, IF @.op = "init" THEN Resolve(Undef)
                            ELSE AfterRead(@.op, @.id, @.val, EmptyMap))]
  /\ Accessed(i, k, "write")
  /\ UNCHANGED lastCall

\* fs.writeFile returns and the body returns its result.
WriteStep(i, k) ==
  /\ Running(i, k, "write")
  /\ disk' = [disk EXCEPT ![tasks[i][k].at.file] = Json(JSONstringify(tasks[i][k].at.data))]
  /\ tasks' = [tasks EXCEPT ![i][k] = Advance(@, Resolve(@.at.res))]
  /\ Accessed(i, k, "write")
  /\ UNCHANGED lastCall

Starts == \E i \in DOMAIN tasks : \E k \in 1..Len(tasks[i]) : Start(i, k)

Accesses == \E i \in DOMAIN tasks : \E k \in 1..Len(tasks[i]) : AccessStep(i, k)

Reads == \E i \in DOMAIN tasks : \E k \in 1..Len(tasks[i]) : ReadStep(i, k)

Creates == \E i \in DOMAIN tasks : \E k \in 1..Len(tasks[i]) : CreateStep(i, k)

Writes == \E i \in DOMAIN tasks : \E k \in 1..Len(tasks[i]) : WriteStep(i, k)

(***************************************************************************)
(* Spec: one store instance; the caller may call any public method at any   *)
(* time, with arguments from Calls.                                         *)
(***************************************************************************)
ArgCall(api, id, val) == [api |-> api, id |-> id, val |-> val]

IdA == <<"a">>
IdAB == <<"a", Sep, "b">>

Calls ==
  {ArgCall("set", IdA, Num(1)), ArgCall("set", IdA, Str("s")),
   ArgCall("set", IdAB, Num(1)), ArgCall("set", IdA, Undef),
   ArgCall("get", IdA, Undef), ArgCall("get", IdAB, Undef), ArgCall("get", <<>>, Undef),
   ArgCall("has", IdA, Undef),
   ArgCall("add", IdA, Num(1)), ArgCall("add", IdAB, Num(1)),
   ArgCall("subtract", IdA, Num(1)), ArgCall("subtract", IdA, Str("s")),
   ArgCall("push", IdA, Num(1)),
   ArgCall("delete", IdA, Undef),
   ArgCall("all", <<>>, Undef),
   ArgCall("clear", <<>>, Bool(TRUE)), ArgCall("clear", <<>>, Undef),
   ArgCall("backup", BakJson, Undef), ArgCall("backup", BakTxt, Undef),
   ArgCall("loadBackup", BakJson, Undef)}

DocA1 == Map(IdA :> Num(1))

InitDisks ==
  {[p \in Paths |-> IF p = DbFile THEN c ELSE Absent] : c \in {Absent, Garbage, Json(DocA1)}}

Init ==
  /\ disk \in InitDisks
  /\ tasks = (1 :> <<InitTask>>)
  /\ trace = <<>>
  /\ lastCall = "none"

Invoke == \E c \in Calls : Call(1, c)

Next == Invoke \/ Starts \/ Accesses \/ Reads \/ Creates \/ Writes

Spec == Init /\ [][Next]_vars

(***************************************************************************)
(* SpecKV: one store instance over a file that holds a document (or is      *)
(* absent); the caller reads and writes entries with set, get, has, all,    *)
(* add and subtract, on plain keys, nested keys, keys below an array and    *)
(* names that every JavaScript object inherits.                             *)
(***************************************************************************)
IdB == <<"b">>
IdA0 == <<"a", Sep, "0">>
IdALength == <<"a", Sep, "length">>
IdConstructor == <<"constructor">>

DocB1 == Map(IdB :> Num(1))

KVCalls ==
  {ArgCall("set", IdA, Num(1)), ArgCall("set", IdA, Str("s")), ArgCall("set", IdA, Null),
   ArgCall("set", IdA, DocB1), ArgCall("set", IdA, Arr(<<Num(1)>>)),
   ArgCall("set", IdAB, Num(1)), ArgCall("set", IdAB, Num(0)),
   ArgCall("get", IdA, Undef), ArgCall("get", IdAB, Undef), ArgCall("get", IdA0, Undef),
   ArgCall("get", IdALength, Undef), ArgCall("get", IdConstructor, Undef),
   ArgCall("has", IdA, Undef), ArgCall("has", IdAB, Undef),
   ArgCall("has", IdConstructor, Undef),
   ArgCall("all", <<>>, Undef),
   ArgCall("add", IdA, Num(1)), ArgCall("add", IdAB, Num(1)), ArgCall("add", IdAB, Num(2)),
   ArgCall("add", IdA0, Num(1)), ArgCall("add", IdConstructor, Num(1)),
   ArgCall("subtract", IdA, Num(1)), ArgCall("subtract", IdAB, Num(1)),
   ArgCall("subtract", IdA, Str("s"))}

KVDocs == {EmptyMap, Map(IdA :> Num(1)), Map(IdA :> Str("s")), Map(IdA :> Arr(<<Num(1)>>)),
           Map(IdA :> DocB1)}

KVDisks ==
  {[p \in Paths |-> IF p = DbFile THEN c ELSE Absent] : c \in {Absent} \cup {Json(d) : d \in KVDocs}}

InitKV ==
  /\ disk \in KVDisks
  /\ tasks = (1 :> <<InitTask>>)
  /\ trace = <<>>
  /\ lastCall = "none"

InvokeKV == \E c \in KVCalls : Call(1, c)

NextKV == InvokeKV \/ Starts \/ Accesses \/ Reads \/ Creates \/ Writes

SpecKV == InitKV /\ [][NextKV]_vars

(***************************************************************************)
(* Reference semantics for the claims: a task's body run alone, from its    *)
(* first statement to its settlement, on the files d.                       *)
(***************************************************************************)
Alone(d, op, id, val) ==
  LET o1 == PreCheck(op, id, val)
      o2 == CASE o1.kind = "read" -> ReadOutcome(op, id, val, d[o1.file])
              [] o1.kind = "access" ->
                   IF d[DbFile] = Absent
                   THEN [kind |-> "create", res |-> Undef, file |-> DbFile, data |-> EmptyMap]
                   ELSE Resolve(Undef)
              [] OTHER -> o1
      d2 == IF o2.kind = "create"
            THEN [d EXCEPT ![DbFile] = Json(JSONstringify(EmptyMap))] ELSE d
      o3 == IF o2.kind # "create" THEN o2
            ELSE IF op = "init" THEN Resolve(Undef)
            ELSE AfterRead(op, id, val, EmptyMap)
      d3 == IF o3.kind = "write"
            THEN [d2 EXCEPT ![o3.file] = Json(JSONstringify(o3.data))] ELSE d2
      o4 == IF o3.kind = "write" THEN Resolve(o3.res) ELSE o3
  IN [disk |-> d3, at |-> o4]

AloneTask(d, task) == Alone(d, task.op, task.id, task.val)

\* The files after the first n tasks of instance i ran one after another,
\* starting from the files d.
RECURSIVE InOrder(_, _, _)
InOrder(d, i, n) ==
  IF n = 0 THEN d ELSE AloneTask(InOrder(d, i, n - 1), tasks[i][n]).disk

IsSettled(i, k) == tasks[i][k].st \in Settled

\* The files as task k left them: what the next task found when it started
\* or, while no later task has started, the files now.
After(i, k) ==
  IF k < Len(tasks[i]) /\ tasks[i][k + 1].st # "queued" THEN tasks[i][k + 1].pre ELSE disk

(***************************************************************************)
(* C1.  At every instant at most one task body of an instance is executing, *)
(* and the file accesses of one task are not interleaved with those of      *)
(* another task of the same instance.                                       *)
(***************************************************************************)
C1_OneBodyAtATime ==
  /\ \A i \in DOMAIN tasks :
       Cardinality({k \in 1..Len(tasks[i]) : tasks[i][k].st = "running"}) <= 1
  /\ \A p, q, r \in 1..Len(trace) :
       (p < q /\ q < r /\ trace[p].inst = trace[q].inst /\ trace[p].inst = trace[r].inst
          /\ trace[p].task = trace[r].task)
       => trace[q].task = trace[p].task

\* Two operations were submitted while the first is between its read and
\* its write.
C1_Witness ==
  \E k \in 2..(Len(tasks[1]) - 1) :
     /\ Running(1, k, "write")
     /\ tasks[1][k + 1].st = "queued"
     /\ \E p \in 1..Len(trace) : trace[p].task = k /\ trace[p].acc = "read"

(***************************************************************************)
(* C2.  Tasks start and settle in the order of their enqueueing: whenever   *)
(* a task has started, every task enqueued before it has settled.           *)
(***************************************************************************)
C2_Fifo ==
  \A i \in DOMAIN tasks : \A j \in 1..Len(tasks[i]) : \A k \in 1..(j - 1) :
     tasks[i][j].st # "queued" => IsSettled(i, k)

\* A task runs after an earlier task was rejected.
C2_Witness ==
  \E j \in 2..Len(tasks[1]) : tasks[1][j].st = "running" /\ tasks[1][j - 1].st = "rejected"

(***************************************************************************)
(* C3.  A rejected task does not stop the queue: the task enqueued after    *)
(* it can start, and it settles with the outcome of its own body, not with  *)
(* the failure of the task before it.                                       *)
(***************************************************************************)
C3_FailureStaysLocal ==
  \A i \in DOMAIN tasks : \A k \in 2..Len(tasks[i]) :
     tasks[i][k - 1].st = "rejected" =>
       /\ tasks[i][k].st = "queued" => ENABLED Start(i, k)
       /\ IsSettled(i, k) => tasks[i][k].at = AloneTask(tasks[i][k].pre, tasks[i][k]).at

\* A task resolved although the task before it was rejected.
C3_Witness ==
  \E k \in 2..Len(tasks[1]) :
     /\ tasks[1][k - 1].st = "rejected"
     /\ tasks[1][k].st = "resolved"
     /\ tasks[1][k].op = "get"

(***************************************************************************)
(* C4.  Operations submitted on one instance, however their submission      *)
(* interleaves with the running tasks, leave the files and deliver to each  *)
(* caller the result of running them one after another in submission        *)
(* order.                                                                   *)
(***************************************************************************)
C4_SequentialResults ==
  \A i \in DOMAIN tasks : \A k \in 1..Len(tasks[i]) :
     LET d0 == tasks[i][1].pre IN
     IsSettled(i, k) =>
       /\ tasks[i][k].at = AloneTask(InOrder(d0, i, k - 1), tasks[i][k]).at
       /\ After(i, k) = InOrder(d0, i, k)

\* Two updates of one entry were both submitted before the first started,
\* and both have settled.
C4_Witness ==
  /\ Len(tasks[1]) = 3
  /\ tasks[1][2].op = "set" /\ tasks[1][3].op = "add"
  /\ tasks[1][2].st = "resolved" /\ tasks[1][3].st = "resolved"
  /\ tasks[1][3].at.res = Num(2)
  /\ tasks[1][2].pre # disk

(***************************************************************************)
(* The entry of a JSON document at a nested location: doc[s1][s2]...[sn]    *)
(* through the entries of maps and the elements of sequences; undefined     *)
(* where the document holds nothing.                                        *)
(***************************************************************************)
RECURSIVE Entry(_, _)
Entry(node, parts) ==
  IF parts = <<>> THEN node
  ELSE CASE node.t = "object" /\ Head(parts) \in DOMAIN node.m ->
              Entry(node.m[Head(parts)], Tail(parts))
         [] node.t = "array" /\ IsIndex(Head(parts)) /\ IndexOf[Head(parts)] < Len(node.a) ->
              Entry(node.a[IndexOf[Head(parts)] + 1], Tail(parts))
         [] OTHER -> Undef

\* The document a file holds; a missing file reads as the empty document.
DocOf(d) == IF d[DbFile].t = "json" THEN d[DbFile].v ELSE EmptyMap

Readable(d) == d[DbFile].t \in {"json", "absent"}

\* Task k+1 of the instance is a settled get of the path of task k.
ThenGet(k) ==
  /\ k < Len(tasks[1])
  /\ tasks[1][k + 1].op = "get"
  /\ tasks[1][k + 1].id = tasks[1][k].id
  /\ IsSettled(1, k + 1)

(***************************************************************************)
(* C5.  get(P) issued right after a set(P, V) that resolved, P a valid key  *)
(* path and V a JSON value, returns V, whatever the document was before.    *)
(***************************************************************************)
C5_SetThenGet ==
  \A k \in 1..Len(tasks[1]) :
     (tasks[1][k].op = "set" /\ ValidID(tasks[1][k].id) /\ tasks[1][k].st = "resolved"
        /\ ThenGet(k))
     => tasks[1][k + 1].st = "resolved" /\ tasks[1][k + 1].at.res = tasks[1][k].val

(***************************************************************************)
(* C6.  After set(P, V) the document returned by all() holds V at the       *)
(* nested location P names, and when V is a map get(P<sep>k1...km) returns  *)
(* what V holds at k1...km.                                                 *)
(***************************************************************************)
C6_NestedLocation ==
  \A k \in 1..(Len(tasks[1]) - 1) :
     LET set == tasks[1][k]
         next == tasks[1][k + 1]
         below == SubSeq(next.id, Len(set.id) + 2, Len(next.id))
     IN (set.op = "set" /\ ValidID(set.id) /\ set.st = "resolved" /\ IsSettled(1, k + 1))
        => /\ next.op = "all" =>
                next.st = "resolved" /\ Entry(next.at.res, Split(set.id)) = set.val
           /\ (next.op = "get" /\ set.val.t = "object" /\ ValidID(next.id)
                 /\ StartsWith(next.id, set.id \o <<Sep>>)
                 /\ Entry(set.val, Split(below)) # Undef)
              => next.st = "resolved" /\ next.at.res = Entry(set.val, Split(below))

(***************************************************************************)
(* C7.  get(P) returns null and has(P) returns false for every valid key    *)
(* path P at which the document holds nothing, whatever the segments of P.  *)
(***************************************************************************)
C7_UnsetIsNull ==
  \A k \in 1..Len(tasks[1]) :
     LET task == tasks[1][k] IN
     (task.op \in {"get", "has"} /\ ValidID(task.id) /\ IsSettled(1, k)
        /\ Readable(task.pre) /\ Entry(DocOf(task.pre), Split(task.id)) = Undef)
     => /\ task.st = "resolved"
        /\ task.at.res = IF task.op = "get" THEN Null ELSE Bool(FALSE)

(***************************************************************************)
(* C8.  add(P, d) on a path that holds a number c, or nothing (c = 0),      *)
(* returns c + d and stores it at P, and a following get(P) returns it;     *)
(* subtract(P, d) is add(P, -d).                                            *)
(***************************************************************************)
C8_AddStoresTotal ==
  \A k \in 1..Len(tasks[1]) :
     LET task == tasks[1][k]
         current == Entry(DocOf(task.pre), Split(task.id))
         total == Num((IF current.t = "number" THEN current.n ELSE 0) + task.val.n)
     IN (task.op = "add" /\ task.val.t = "number" /\ ValidID(task.id) /\ IsSettled(1, k)
           /\ Readable(task.pre) /\ current.t \in {"number", "undefined"})
        => /\ task.st = "resolved"
           /\ task.at.res = total
           /\ Entry(DocOf(After(1, k)), Split(task.id)) = total
           /\ ThenGet(k) => tasks[1][k + 1].at.res = total

(***************************************************************************)
(* C9.  add(P, a) followed by add(P, b) leaves the document and the final   *)
(* total of a single add(P, a + b) on the same initial document.            *)
(***************************************************************************)
C9_AddTwiceIsAddOnce ==
  \A k \in 1..(Len(tasks[1]) - 1) :
     LET first == tasks[1][k]
         second == tasks[1][k + 1]
         current == Entry(DocOf(first.pre), Split(first.id))
         once == Alone(first.pre, "add", first.id, Num(first.val.n + second.val.n))
     IN (first.op = "add" /\ second.op = "add" /\ second.id = first.id
           /\ first.val.t = "number" /\ second.val.t = "number" /\ ValidID(first.id)
           /\ IsSettled(1, k + 1) /\ Readable(first.pre)
           /\ current.t \in {"number", "undefined"})
        => After(1, k + 1) = once.disk /\ second.at = once.at

(***************************************************************************)
(* C10.  add(P, d) and subtract(P, d) on a path that holds a value that is  *)
(* not a number (a string, a boolean, a map, a sequence) reject with the    *)
(* type-mismatch error and leave the files as they were; a following        *)
(* get(P) returns the stored value.                                         *)
(***************************************************************************)
C10_AddOnNonNumberRejects ==
  \A k \in 1..Len(tasks[1]) :
     LET task == tasks[1][k]
         current == Entry(DocOf(task.pre), Split(task.id))
     IN (task.op = "add" /\ task.val.t = "number" /\ ValidID(task.id) /\ IsSettled(1, k)
           /\ Readable(task.pre) /\ current.t \in {"string", "boolean", "object", "array"})
        => /\ task.st = "rejected"
           /\ task.at.res = ErrVal("dataNotANumber")
           /\ After(1, k) = task.pre
           /\ ThenGet(k) => tasks[1][k + 1].at = Resolve(current)

\* subtract on a path that holds a string was rejected, and the get after
\* it returned the string.
C10_Witness ==
  \E k \in 1..(Len(tasks[1]) - 1) :
     /\ tasks[1][k].api = "subtract"
     /\ tasks[1][k].at = Reject("dataNotANumber")
     /\ Entry(DocOf(tasks[1][k].pre), Split(tasks[1][k].id)) = Str("s")
     /\ tasks[1][k + 1].op = "get"
     /\ tasks[1][k + 1].at = Resolve(Str("s"))

(***************************************************************************)
(* SpecDoc: one store instance over a file that holds a document; the       *)
(* caller appends to sequences and deletes entries, and reads them back,    *)
(* on plain keys, nested keys, keys below an array and names that every     *)
(* JavaScript object inherits.                                              *)
(***************************************************************************)
IdAC == <<"a", Sep, "c">>

DocCalls ==
  {ArgCall("push", IdA, Num(1)), ArgCall("push", IdA, Num(2)), ArgCall("push", IdAB, Num(1)),
   ArgCall("push", IdConstructor, Num(1)),
   ArgCall("delete", IdA, Undef), ArgCall("delete", IdAB, Undef), ArgCall("delete", IdA0, Undef),
   ArgCall("delete", IdAC, Undef), ArgCall("delete", IdConstructor, Undef),
   ArgCall("get", IdA, Undef), ArgCall("get", IdAB, Undef), ArgCall("get", IdA0, Undef),
   ArgCall("get", IdConstructor, Undef),
   ArgCall("has", IdA, Undef), ArgCall("has", IdAB, Undef), ArgCall("has", IdConstructor, Undef),
   ArgCall("all", <<>>, Undef)}

DocDocs ==
  {EmptyMap, Map(IdA :> Num(1)), Map(IdA :> Str("s")), Map(IdA :> Bool(TRUE)),
   Map(IdA :> Arr(<<Num(1)>>)), Map(IdA :> Arr(<<Num(1), Num(2)>>)),
   Map(IdA :> Map(IdB :> Num(1))),
   Map(IdA :> Map((IdB :> Arr(<<Num(1)>>)) @@ (<<"c">> :> Num(2)))),
   Map((IdA :> Num(1)) @@ (IdB :> Num(2))),
   Map(IdConstructor :> Num(1))}

DocDisks ==
  {[p \in Paths |-> IF p = DbFile THEN c ELSE Absent] : c \in {Json(d) : d \in DocDocs}}

InitDoc ==
  /\ disk \in DocDisks
  /\ tasks = (1 :> <<InitTask>>)
  /\ trace = <<>>
  /\ lastCall = "none"

InvokeDoc == \E c \in DocCalls : Call(1, c)

NextDoc == InvokeDoc \/ Starts \/ Accesses \/ Reads \/ Writes

SpecDoc == InitDoc /\ [][NextDoc]_vars

\* Task k+1 of the instance is a settled call of op on the path of task k.
ThenOp(k, op) ==
  /\ k < Len(tasks[1])
  /\ tasks[1][k + 1].op = op
  /\ tasks[1][k + 1].id = tasks[1][k].id
  /\ IsSettled(1, k + 1)

(***************************************************************************)
(* C11.  push(P, x) on a path that holds nothing stores and returns <<x>>,  *)
(* and on a path that holds a sequence s stores and returns s with x        *)
(* appended; a following get(P) returns that sequence.                      *)
(***************************************************************************)
C11_PushAppends ==
  \A k \in 1..Len(tasks[1]) :
     LET task == tasks[1][k]
         current == Entry(DocOf(task.pre), Split(task.id))
         pushed == Arr(Append(current.a, task.val))
     IN (task.op = "push" /\ task.val # Undef /\ ValidID(task.id) /\ IsSettled(1, k)
           /\ Readable(task.pre) /\ current.t \in {"undefined", "array"})
        => /\ task.at = Resolve(pushed)
           /\ Entry(DocOf(After(1, k)), Split(task.id)) = pushed
           /\ ThenGet(k) => tasks[1][k + 1].at = Resolve(pushed)

(***************************************************************************)
(* C12.  push(P, x) on a path that holds a value that is not a sequence (a  *)
(* number, a string, a boolean or a map) rejects with the type-mismatch     *)
(* error and leaves the files as they were.                                 *)
(***************************************************************************)
C12_PushOnNonSequenceRejects ==
  \A k \in 1..Len(tasks[1]) :
     LET task == tasks[1][k]
         current == Entry(DocOf(task.pre), Split(task.id))
     IN (task.op = "push" /\ task.val # Undef /\ ValidID(task.id) /\ IsSettled(1, k)
           /\ Readable(task.pre) /\ current.t \in {"number", "string", "boolean", "object"})
        => /\ task.at = Reject("mustBeArray")
           /\ After(1, k) = task.pre

\* push was rejected on a path that holds a map, and the map is still there.
C12_Witness ==
  \E k \in 1..Len(tasks[1]) :
     /\ tasks[1][k].op = "push"
     /\ tasks[1][k].at = Reject("mustBeArray")
     /\ Entry(DocOf(tasks[1][k].pre), Split(tasks[1][k].id)).t = "object"
     /\ Entry(DocOf(disk), Split(tasks[1][k].id)).t = "object"

(***************************************************************************)
(* Locations of a document the claims probe: the paths of at most three     *)
(* segments over the names the documents of the model use.                  *)
(***************************************************************************)
ProbeNames == {Key("a"), Key("b"), Key("c"), Key("0"), Key("1"), Key("constructor")}

Probes ==
  {<<x>> : x \in ProbeNames} \cup (ProbeNames \X ProbeNames)
    \cup (ProbeNames \X ProbeNames \X ProbeNames)

\* Neither location lies at or below the other.
Apart(p, q) == ~StartsWith(p, q) /\ ~StartsWith(q, p)

\* The entry of a document at a nested location, descending through maps
\* only: undefined where a segment meets a scalar, a sequence or nothing.
RECURSIVE MapEntry(_, _)
MapEntry(node, parts) ==
  IF parts = <<>> THEN node
  ELSE IF node.t = "object" /\ Head(parts) \in DOMAIN node.m
  THEN MapEntry(node.m[Head(parts)], Tail(parts))
  ELSE Undef

\* Task k of the instance wrote a file.
Wrote(k) == \E p \in 1..Len(trace) : trace[p].task = k /\ trace[p].acc = "write"

(***************************************************************************)
(* C13.  delete(P) on a path that holds a value returns true; a following   *)
(* get(P) returns null and a following has(P) returns false; every entry    *)
(* of the document that lies neither at or below P nor above it keeps its   *)
(* value.                                                                   *)
(***************************************************************************)
C13_DeleteRemoves ==
  \A k \in 1..Len(tasks[1]) :
     LET task == tasks[1][k]
         before == DocOf(task.pre)
         after == DocOf(After(1, k))
     IN (task.op = "delete" /\ ValidID(task.id) /\ IsSettled(1, k)
           /\ Readable(task.pre) /\ Entry(before, Split(task.id)) # Undef)
        => /\ task.at = Resolve(Bool(TRUE))
           /\ \A q \in Probes : Apart(Split(task.id), q) => Entry(after, q) = Entry(before, q)
           /\ ThenOp(k, "get") => tasks[1][k + 1].at = Resolve(Null)
           /\ ThenOp(k, "has") => tasks[1][k + 1].at = Resolve(Bool(FALSE))

(***************************************************************************)
(* C14.  delete(P) on a path that does not exist, a path one of whose       *)
(* intermediate segments meets a scalar, a sequence or nothing included,    *)
(* returns false, writes no file and leaves the document unchanged.         *)
(***************************************************************************)
C14_DeleteOfNothing ==
  \A k \in 1..Len(tasks[1]) :
     LET task == tasks[1][k] IN
     (task.op = "delete" /\ ValidID(task.id) /\ IsSettled(1, k)
        /\ task.pre[DbFile].t = "json" /\ MapEntry(DocOf(task.pre), Split(task.id)) = Undef)
     => /\ task.at = Resolve(Bool(FALSE))
        /\ ~Wrote(k)
        /\ After(1, k) = task.pre

(***************************************************************************)
(* SpecBak: one store instance and its backup files; the caller clears the  *)
(* document, takes backups, changes the document and loads backups, the     *)
(* database file itself being one of the paths it may name.                 *)
(***************************************************************************)
BakCalls ==
  {ArgCall("clear", <<>>, Bool(TRUE)), ArgCall("clear", <<>>, Bool(FALSE)),
   ArgCall("clear", <<>>, Undef),
   ArgCall("backup", BakJson, Undef), ArgCall("backup", DbFile, Undef),
   ArgCall("loadBackup", BakJson, Undef), ArgCall("loadBackup", DbFile, Undef),
   ArgCall("set", IdA, Num(2)), ArgCall("delete", IdA, Undef),
   ArgCall("all", <<>>, Undef)}

DocNested == Map(IdA :> Map(IdB :> Arr(<<Num(1)>>)))

BakDisks ==
  {[p \in Paths |-> CASE p = DbFile -> Json(d) [] p = BakJson -> b [] OTHER -> Absent] :
     d \in {DocA1, DocNested}, b \in {Absent, Garbage, Json(DocB1)}}

InitBak ==
  /\ disk \in BakDisks
  /\ tasks = (1 :> <<InitTask>>)
  /\ trace = <<>>
  /\ lastCall = "none"

InvokeBak == \E c \in BakCalls : Len(tasks[1]) < MaxBakTasks + 1 /\ Submit(1, c)

NextBak == InvokeBak \/ Starts \/ Accesses \/ Reads \/ Writes

SpecBak == InitBak /\ [][NextBak]_vars

(***************************************************************************)
(* C15.  clear called with confirm equal to true resolves and leaves the    *)
(* empty document, which a following all() returns; called with confirm     *)
(* false or without options it rejects with the confirmation error and      *)
(* leaves the files as they were.                                           *)
(***************************************************************************)
C15_ClearNeedsConfirm ==
  \A k \in 1..Len(tasks[1]) :
     LET task == tasks[1][k] IN
     (task.op = "clear" /\ IsSettled(1, k))
     => IF task.val = Bool(TRUE)
        THEN /\ task.at = Resolve(Bool(TRUE))
             /\ After(1, k) = [task.pre EXCEPT ![DbFile] = Json(EmptyMap)]
             /\ ThenOp(k, "all") => tasks[1][k + 1].at = Resolve(EmptyMap)
        ELSE /\ task.at = Reject("clearConfirm")
             /\ After(1, k) = task.pre

\* A confirmed clear of a document that held entries, then all() returning
\* the empty map.
C15_Witness ==
  \E k \in 1..(Len(tasks[1]) - 1) :
     /\ tasks[1][k].op = "clear"
     /\ tasks[1][k].val = Bool(TRUE)
     /\ tasks[1][k].st = "resolved"
     /\ DocOf(tasks[1][k].pre) # EmptyMap
     /\ tasks[1][k + 1].op = "all"
     /\ tasks[1][k + 1].at = Resolve(EmptyMap)

(***************************************************************************)
(* Task j loads the backup that task k took, and the tasks between them     *)
(* are sets, deletes and clears.                                            *)
(***************************************************************************)
RoundTrip(k, j) ==
  /\ k < j
  /\ tasks[1][k].op = "backup" /\ tasks[1][k].st = "resolved"
  /\ tasks[1][j].op = "loadBackup" /\ tasks[1][j].id = tasks[1][k].id
  /\ IsSettled(1, j)
  /\ \A m \in (k + 1)..(j - 1) : tasks[1][m].op \in {"set", "delete", "clear"}

\* The load restored the document of the time of the backup, and all()
\* returns it.
Restored(k, j) ==
  /\ tasks[1][j].at = Resolve(Bool(TRUE))
  /\ After(1, j)[DbFile] = Json(DocOf(tasks[1][k].pre))
  /\ ThenOp(j, "all") => tasks[1][j + 1].at = Resolve(DocOf(tasks[1][k].pre))

C17_ReadersChangeNothing ==
  \A k \in 1..Len(tasks[1]) :
     LET task == tasks[1][k] IN
     (task.op \in {"backup", "get", "has", "all"} /\ IsSettled(1, k))
     => /\ After(1, k)[DbFile] = task.pre[DbFile]
        /\ \A p \in Paths \ {DbFile} :
              \/ After(1, k)[p] = task.pre[p]
              \/ task.op = "backup" /\ task.st = "resolved" /\ p = task.id

\* A backup was written and the database file is what it was.
C17_Witness ==
  \E k \in 1..Len(tasks[1]) :
     /\ tasks[1][k].op = "backup"
     /\ tasks[1][k].st = "resolved"
     /\ tasks[1][k].pre[DbFile] = Json(DocA1)
     /\ tasks[1][k].pre[BakJson] = Absent
     /\ After(1, k)[BakJson] = Json(DocA1)
     /\ After(1, k)[DbFile] = Json(DocA1)

(***************************************************************************)
(* C18.  loadBackup(path) on a file that is missing or does not parse       *)
(* rejects with the backup error and leaves the files as they were; a       *)
(* following all() returns the document as it was.                          *)
(***************************************************************************)
C18_BadBackupChangesNothing ==
  \A k \in 1..Len(tasks[1]) :
     LET task == tasks[1][k] IN
     (task.op = "loadBackup" /\ task.id \in Paths /\ IsSettled(1, k)
        /\ task.pre[task.id].t \in {"absent", "garbage"})
     => /\ task.at = Reject("backupRead")
        /\ After(1, k) = task.pre
        /\ (k < Len(tasks[1]) /\ tasks[1][k + 1].op = "all" /\ IsSettled(1, k + 1)
              /\ Readable(task.pre))
           => tasks[1][k + 1].at = Resolve(DocOf(task.pre))

\* A backup file that does not parse was loaded over a document that held
\* entries, and all() then returned those entries.
C18_Witness ==
  \E k \in 1..(Len(tasks[1]) - 1) :
     /\ tasks[1][k].op = "loadBackup"
     /\ tasks[1][k].pre[tasks[1][k].id] = Garbage
     /\ tasks[1][k].st = "rejected"
     /\ tasks[1][k + 1].op = "all"
     /\ tasks[1][k + 1].at = Resolve(DocA1)

(***************************************************************************)
(* C19.  While the database file holds text that does not parse, every      *)
(* operation that reaches its read of the document (get, has, all, set,     *)
(* add, subtract, push, delete, backup) rejects with the parse error and    *)
(* leaves the files as they were.                                           *)
(***************************************************************************)
C19_CorruptFileRejects ==
  \A k \in 1..Len(tasks[1]) :
     LET task == tasks[1][k] IN
     (task.op \in {"get", "has", "all", "set", "add", "push", "delete", "backup"}
        /\ IsSettled(1, k) /\ task.pre[DbFile] = Garbage
        /\ PreCheck(task.op, task.id, task.val) = ReadFrom(DbFile))
     => /\ task.at = Reject("parseError")
        /\ After(1, k) = task.pre

\* A set and then a get were rejected with the parse error, and the file
\* still holds the text that does not parse.
C19_Witness ==
  /\ Len(tasks[1]) = 3
  /\ tasks[1][2].op = "set" /\ tasks[1][2].at = Reject("parseError")
  /\ tasks[1][3].op = "get" /\ tasks[1][3].at = Reject("parseError")
  /\ disk[DbFile] = Garbage

(***************************************************************************)
(* SpecKeys: one store instance; the caller names key paths that are        *)
(* empty, start or end with the separator, or hold two separators in a      *)
(* row, in every operation that takes a key path, next to a set of a        *)
(* well-formed key and reads of the whole document.                         *)
(***************************************************************************)
IdLead == <<Sep, "a">>
IdTrail == <<"a", Sep>>
IdDouble == <<"a", Sep, Sep, "b">>

BadIds == {<<>>, IdLead, IdTrail, IdDouble}

KeyCalls ==
  {ArgCall(api, id, Num(1)) : api \in {"set", "add", "subtract", "push"}, id \in BadIds}
    \cup {ArgCall(api, id, Undef) : api \in {"get", "has", "delete"}, id \in BadIds}
    \cup {ArgCall("set", IdA, Num(2)), ArgCall("all", <<>>, Undef)}

KeyDisks ==
  {[p \in Paths |-> IF p = DbFile THEN c ELSE Absent] :
     c \in {Absent, Garbage, Json(EmptyMap), Json(DocA1), Json(Map(IdA :> DocB1))}}

InitKeys ==
  /\ disk \in KeyDisks
  /\ tasks = (1 :> <<InitTask>>)
  /\ trace = <<>>
  /\ lastCall = "none"

InvokeKeys == \E c \in KeyCalls : Call(1, c)

NextKeys == InvokeKeys \/ Starts \/ Accesses \/ Reads \/ Creates \/ Writes

SpecKeys == InitKeys /\ [][NextKeys]_vars

(***************************************************************************)
(* C20.  set, get, has, add, subtract, push and delete, given a key path    *)
(* that is empty, starts or ends with the separator or holds two            *)
(* separators in a row, reject with the error of an invalid key (for the    *)
(* empty path, the error of a missing key) and leave the files as they      *)
(* were.                                                                    *)
(***************************************************************************)
C20_BadKeyRejects ==
  \A k \in 1..Len(tasks[1]) :
     LET task == tasks[1][k] IN
     (task.op \in {"set", "get", "has", "add", "push", "delete"} /\ ~ValidID(task.id)
        /\ IsSettled(1, k) /\ task.pre[DbFile].t = "json")
     => /\ task.at \in {Reject("nonValidID"), Reject("undefinedID")}
        /\ After(1, k) = task.pre

\* Task k of the instance accessed a file.
Touched(k) == \E p \in 1..Len(trace) : trace[p].inst = 1 /\ trace[p].task = k

(***************************************************************************)
(* C21.  An operation given an invalid key path is rejected with the        *)
(* invalid-key error (for the empty path, the error of a missing key)       *)
(* before its task accesses any file, whether the database file is          *)
(* missing, does not parse or holds a document.                             *)
(***************************************************************************)
C21_BadKeyBeforeIO ==
  \A k \in 1..Len(tasks[1]) :
     LET task == tasks[1][k] IN
     (task.op \in {"set", "get", "has", "add", "push", "delete"} /\ ~ValidID(task.id))
     => /\ ~Touched(k)
        /\ IsSettled(1, k) => task.at \in {Reject("nonValidID"), Reject("undefinedID")}

(***************************************************************************)
(* SpecFail: one store instance; the caller makes the calls of Spec and     *)
(* those of SpecKeys, so that every way an operation can be rejected        *)
(* occurs: invalid key, missing key or value, type mismatch, missing        *)
(* confirmation, parse error, bad backup.                                   *)
(***************************************************************************)
InitFail ==
  /\ disk \in InitDisks \cup KeyDisks
  /\ tasks = (1 :> <<InitTask>>)
  /\ trace = <<>>
  /\ lastCall = "none"

InvokeFail == \E c \in Calls \cup KeyCalls : Call(1, c)

NextFail == InvokeFail \/ Starts \/ Accesses \/ Reads \/ Creates \/ Writes

SpecFail == InitFail /\ [][NextFail]_vars

(***************************************************************************)
(* C22.  A task that rejects leaves the database file as it found it,       *)
(* whatever the operation and whatever the reason of the rejection.         *)
(***************************************************************************)
C22_FailureChangesNothing ==
  \A k \in 1..Len(tasks[1]) :
     tasks[1][k].st = "rejected" => After(1, k)[DbFile] = tasks[1][k].pre[DbFile]

\* An add was rejected for the type of the stored value, after a set that
\* stored a string, and the string is still in the file.
C22_Witness ==
  /\ Len(tasks[1]) = 3
  /\ tasks[1][2].op = "set" /\ tasks[1][2].st = "resolved"
  /\ tasks[1][3].at = Reject("dataNotANumber")
  /\ disk[DbFile] = Json(Map(IdA :> Str("s")))

(***************************************************************************)
(* C24.  No call of a public operation raises its error at the call site:   *)
(* every call returns a handle.                                             *)
(***************************************************************************)
C24_NoSynchronousThrow == lastCall # "threw"

\* No task of the instance is queued or running.
AtRest == \A k \in 1..Len(tasks[1]) : IsSettled(1, k)

(***************************************************************************)
(* C23.  The database file being missing or holding a document when the     *)
(* store is opened, whenever every submitted task has settled the file      *)
(* holds the text of a document; it holds the empty map when the file was   *)
(* missing and nothing but reads followed.                                  *)
(***************************************************************************)
C23_ValidAtRest ==
  (AtRest /\ tasks[1][1].pre[DbFile] # Garbage)
  => /\ disk[DbFile].t = "json"
     /\ (tasks[1][1].pre[DbFile] = Absent
           /\ \A k \in 2..Len(tasks[1]) : tasks[1][k].op \in {"get", "has", "all"})
        => disk[DbFile] = Json(EmptyMap)

\* The file was missing when the store was opened; a read and a set have
\* settled and the file holds the entry.
C23_Witness ==
  /\ AtRest
  /\ Len(tasks[1]) = 3
  /\ tasks[1][1].pre[DbFile] = Absent
  /\ tasks[1][2].op = "all" /\ tasks[1][2].at = Resolve(EmptyMap)
  /\ disk[DbFile] = Json(DocA1)

(***************************************************************************)
(* SpecTwo: two store instances opened on the same database file, each      *)
(* with its own queue; the callers add to one entry and read it.            *)
(***************************************************************************)
TwoCalls == {ArgCall("add", IdA, Num(1)), ArgCall("get", IdA, Undef)}

TwoDisks ==
  {[p \in Paths |-> IF p = DbFile THEN c ELSE Absent] : c \in {Json(EmptyMap), Json(DocA1)}}

InitTwo ==
  /\ disk \in TwoDisks
  /\ tasks = (1 :> <<InitTask>>) @@ (2 :> <<InitTask>>)
  /\ trace = <<>>
  /\ lastCall = "none"

InvokeTwo == \E i \in {1, 2} : \E c \in TwoCalls : Call(i, c)

NextTwo == InvokeTwo \/ Starts \/ Accesses \/ Reads \/ Writes

SpecTwo == InitTwo /\ [][NextTwo]_vars

\* The place in the trace of the file access acc of task k of instance i
\* (0 when it has not happened).
AccessAt(i, k, acc) ==
  IF \E p \in 1..Len(trace) : trace[p] = [inst |-> i, task |-> k, acc |-> acc]
  THEN CHOOSE p \in 1..Len(trace) : trace[p] = [inst |-> i, task |-> k, acc |-> acc]
  ELSE 0

\* Tasks j of instance 1 and m of instance 2 are adds that resolved after
\* reading the file with no write between their two reads.
ReadTogether(j, m) ==
  LET r1 == AccessAt(1, j, "read")
      r2 == AccessAt(2, m, "read")
      lo == IF r1 < r2 THEN r1 ELSE r2
      hi == IF r1 < r2 THEN r2 ELSE r1
  IN /\ tasks[1][j].op = "add" /\ tasks[1][j].st = "resolved"
     /\ tasks[2][m].op = "add" /\ tasks[2][m].st = "resolved"
     /\ \A p \in lo..hi : trace[p].acc # "write"

(***************************************************************************)
(* C25.  The queue orders the tasks of one instance only: a task whose own  *)
(* chain is free can start whatever the tasks of the other instance are     *)
(* doing, and two adds of 1, one on each instance, that read the file with  *)
(* no write between their reads return the same total, so that one of the   *)
(* two updates is lost.                                                     *)
(***************************************************************************)
C25_InstancesRace ==
  /\ \A i \in DOMAIN tasks : \A k \in 1..Len(tasks[i]) :
        (tasks[i][k].st = "queued" /\ (k = 1 \/ tasks[i][k - 1].st \in Settled))
        => ENABLED Start(i, k)
  /\ \A j \in 1..Len(tasks[1]) : \A m \in 1..Len(tasks[2]) :
        ReadTogether(j, m) => tasks[1][j].at = tasks[2][m].at

\* Both instances added 1 to an entry that held 1, every task has settled,
\* and the entry holds 2.
C25_Witness ==
  /\ tasks[1][1].pre[DbFile] = Json(DocA1)
  /\ Len(tasks[1]) = 2 /\ Len(tasks[2]) = 2
  /\ tasks[1][2].op = "add" /\ tasks[1][2].at = Resolve(Num(2))
  /\ tasks[2][2].op = "add" /\ tasks[2][2].at = Resolve(Num(2))
  /\ disk[DbFile] = Json(Map(IdA :> Num(2)))

\* Some node the path descends into, below the root, is not a map: it is a
\* scalar, a sequence or nothing.
BelowNonMap(doc, parts) ==
  \E n \in 1..(Len(parts) - 1) : MapEntry(doc, SubSeq(parts, 1, n)).t # "object"

(***************************************************************************)
(* C26.  get(P) returns null and has(P) returns false whenever a node the   *)
(* path descends into is not a map (a scalar, a sequence or nothing); a     *)
(* path that continues below a sequence, by an index or by length, is not   *)
(* found.                                                                   *)
(***************************************************************************)
C26_NotFoundBelowNonMap ==
  \A k \in 1..Len(tasks[1]) :
     LET task == tasks[1][k] IN
     (task.op \in {"get", "has"} /\ ValidID(task.id) /\ IsSettled(1, k)
        /\ Readable(task.pre) /\ BelowNonMap(DocOf(task.pre), Split(task.id)))
     => task.at = Resolve(IF task.op = "get" THEN Null ELSE Bool(FALSE))

(***************************************************************************)
(* C27.  After set(P, V), and after add writing its total to P, every       *)
(* node of the stored document above P is a map and the document holds the  *)
(* value at P, whatever stood on the path before (a scalar, null, a         *)
(* sequence or nothing).                                                    *)
(***************************************************************************)
C27_WriteLandsAtPath ==
  \A k \in 1..Len(tasks[1]) :
     LET task == tasks[1][k]
         parts == Split(task.id)
         after == DocOf(After(1, k))
     IN (task.op \in {"set", "add"} /\ ValidID(task.id) /\ task.st = "resolved"
           /\ Readable(task.pre))
        => /\ ~BelowNonMap(after, parts)
           /\ MapEntry(after, parts) = task.at.res

(***************************************************************************)
(* SpecMissing: one store instance whose database file is deleted from      *)
(* outside between tasks, as the cleanup of the test-suite does, so that    *)
(* the read of a task after the constructor's finds no file.                *)
(***************************************************************************)
MissingCalls ==
  {ArgCall("get", IdA, Undef), ArgCall("has", IdA, Undef), ArgCall("all", <<>>, Undef),
   ArgCall("set", IdA, Num(1)), ArgCall("add", IdA, Num(1))}

MissingDisks ==
  {[p \in Paths |-> IF p = DbFile THEN c ELSE Absent] :
     c \in {Absent, Json(EmptyMap), Json(DocA1)}}

InitMissing ==
  /\ disk \in MissingDisks
  /\ tasks = (1 :> <<InitTask>>)
  /\ trace = <<>>
  /\ lastCall = "none"

InvokeMissing == \E c \in MissingCalls : Call(1, c)

\* fs.unlinkSync(TEST_DB_PATH): the file is deleted while no task is running.
Remove ==
  /\ disk[DbFile] # Absent
  /\ \A i \in DOMAIN tasks : \A k \in 1..Len(tasks[i]) : tasks[i][k].st # "running"
  /\ disk' = [disk EXCEPT ![DbFile] = Absent]
  /\ UNCHANGED <<tasks, trace, lastCall>>

NextMissing == InvokeMissing \/ Remove \/ Starts \/ Accesses \/ Reads \/ Creates \/ Writes

SpecMissing == InitMissing /\ [][NextMissing]_vars

\* The files d with the database file holding the empty map.
WithEmptyDb(d) == [d EXCEPT ![DbFile] = Json(JSONstringify(EmptyMap))]

(***************************************************************************)
(* C28.  A task other than the constructor's that finds no database file    *)
(* when it reads is never rejected for it: once its read has returned, the  *)
(* file holds the serialised empty map until the task's own write, and the  *)
(* task settles as it would on a file holding the empty map (get null, has  *)
(* false, all the empty map, set and add only the new entry), leaving the   *)
(* file it would leave (unless the file is deleted again afterwards).       *)
(***************************************************************************)
C28_MissingFileReadsEmpty ==
  \A k \in 2..Len(tasks[1]) :
     LET task == tasks[1][k]
         alone == AloneTask(WithEmptyDb(task.pre), task)
     IN (task.st # "queued" /\ task.pre[DbFile] = Absent)
        => /\ task.at.kind # "reject"
           /\ (task.st = "running" /\ task.at.kind = "write")
                => disk[DbFile] = Json(JSONstringify(EmptyMap))
           /\ IsSettled(1, k)
                => /\ task.at = alone.at
                   /\ After(1, k)[DbFile] \in {Absent, alone.disk[DbFile]}
                   /\ task.op = "get" => task.at = Resolve(Null)
                   /\ task.op = "all" => task.at = Resolve(EmptyMap)
                   /\ task.op = "set" => alone.disk[DbFile] = Json(Map(IdA :> task.val))

C28_Witness ==
  /\ Len(tasks[1]) = 3
  /\ tasks[1][2].pre[DbFile] = Absent
  /\ tasks[1][2].op = "set"
  /\ tasks[1][2].st = "resolved"
  /\ tasks[1][3].op = "get"
  /\ tasks[1][3].pre[DbFile] = Json(DocA1)
  /\ tasks[1][3].at = Resolve(Num(1))

(***************************************************************************)
(* SpecLive: Spec with the file-system call of the constructor's task also  *)
(* failing for a reason other than a missing file, and with the event loop  *)
(* running every continuation that is ready: a task whose predecessor has   *)
(* settled starts, and every file-system call returns.  Callers are under   *)
(* no obligation to call.                                                   *)
(***************************************************************************)
\* fs.access(this.file) fails with a code other than ENOENT: the
\* constructor's task throws.
AccessFails(i, k) ==
  /\ Running(i, k, "access")
  /\ tasks' = [tasks EXCEPT ![i][k] = Advance(@, Reject("accessError"))]
  /\ Accessed(i, k, "access")
  /\ UNCHANGED <<disk, lastCall>>

AccessFailures == \E i \in DOMAIN tasks : \E k \in 1..Len(tasks[i]) : AccessFails(i, k)

NextLive == Invoke \/ Starts \/ Accesses \/ AccessFailures \/ Reads \/ Creates \/ Writes

Fairness ==
  /\ WF_vars(Starts)
  /\ WF_vars(Accesses \/ AccessFailures)
  /\ WF_vars(Reads)
  /\ WF_vars(Creates)
  /\ WF_vars(Writes)

SpecLive == Init /\ [][NextLive]_vars /\ Fairness

\* Task k has been enqueued.
Enqueued(k) == Len(tasks[1]) >= k

\* A step leaves every task that has started either running or settled, and
\* settles no task whose body has not run: a task other than one rejected by
\* its own first check settles from the running state.
NoAbort ==
  \A k \in 1..Len(tasks[1]) :
     /\ Len(tasks'[1]) >= k
     /\ tasks[1][k].st = "running" => tasks'[1][k].st \in {"running", "resolved", "rejected"}
     /\ tasks[1][k].st \in Settled => tasks'[1][k] = tasks[1][k]
     /\ (tasks[1][k].st = "queued" /\ tasks'[1][k].st \in Settled)
          => /\ k = 1 \/ tasks[1][k - 1].st \in Settled
             /\ tasks'[1][k].at = PreCheck(tasks[1][k].op, tasks[1][k].id, tasks[1][k].val)

(***************************************************************************)
(* C29.  Every file-system call returning, every enqueued task eventually   *)
(* settles (and so has started), also after earlier tasks, the              *)
(* constructor's among them, rejected; a task that has started stays        *)
(* running until it settles, a settled task stays as it settled, and no     *)
(* task is settled without its body having run.                             *)
(***************************************************************************)
C29_EveryTaskSettles ==
  /\ \A k \in 1..(MaxTasks + 1) : Enqueued(k) ~> (Enqueued(k) /\ IsSettled(1, k))
  /\ [][NoAbort]_vars

C29_Witness ==
  /\ Len(tasks[1]) = 3
  /\ tasks[1][1].at = Reject("accessError")
  /\ tasks[1][2].st = "rejected"
  /\ tasks[1][2].pre[DbFile] = Garbage
  /\ tasks[1][3].st = "resolved"
  /\ tasks[1][3].op = "clear"

(***************************************************************************)
(* SpecNull: one store instance over documents that hold falsy values and   *)
(* null, at the top level and nested; the caller stores such values and     *)
(* asks for them with get and has.                                          *)
(***************************************************************************)
Falsy == {Num(0), Bool(FALSE), Str("")}

NullCalls ==
  {ArgCall("set", IdA, v) : v \in Falsy \cup {Null, Num(1)}}
  \cup {ArgCall("set", IdAB, Num(0)), ArgCall("set", IdAB, Null)}
  \cup {ArgCall(op, id, Undef) : op \in {"get", "has"}, id \in {IdA, IdAB, IdConstructor}}

NullDocs ==
  {EmptyMap, Map(IdA :> Null), Map(IdA :> Map(IdB :> Null))}
  \cup {Map(IdA :> v) : v \in Falsy}
  \cup {Map(IdA :> Map(IdB :> v)) : v \in Falsy}

NullDisks ==
  {[p \in Paths |-> IF p = DbFile THEN c ELSE Absent] : c \in {Absent} \cup {Json(d) : d \in NullDocs}}

InitNull ==
  /\ disk \in NullDisks
  /\ tasks = (1 :> <<InitTask>>)
  /\ trace = <<>>
  /\ lastCall = "none"

InvokeNull == \E c \in NullCalls : Call(1, c)

NextNull == InvokeNull \/ Starts \/ Accesses \/ Reads \/ Creates \/ Writes

SpecNull == InitNull /\ [][NextNull]_vars

\* Tasks j and m are a settled get and a settled has of the same path that
\* read the same document.
GetAndHas(j, m) ==
  /\ tasks[1][j].op = "get" /\ tasks[1][m].op = "has"
  /\ tasks[1][j].id = tasks[1][m].id
  /\ IsSettled(1, j) /\ IsSettled(1, m)
  /\ Readable(tasks[1][j].pre) /\ Readable(tasks[1][m].pre)
  /\ DocOf(tasks[1][j].pre) = DocOf(tasks[1][m].pre)

(***************************************************************************)
(* C30.  On one document and one valid key path, has answers true exactly   *)
(* when get answers something other than null.  Where the document holds    *)
(* 0, false or the empty string at the path, get returns that value and has *)
(* answers true; where it holds null, or nothing under a name no object     *)
(* inherits, get returns null and has answers false.                        *)
(***************************************************************************)
C30_HasIffGetNotNull ==
  /\ \A j, m \in 1..Len(tasks[1]) :
       (GetAndHas(j, m) /\ ValidID(tasks[1][j].id))
       => /\ tasks[1][j].st = "resolved" /\ tasks[1][m].st = "resolved"
          /\ tasks[1][m].at.res = Bool(tasks[1][j].at.res # Null)
  /\ \A k \in 1..Len(tasks[1]) :
       LET task == tasks[1][k]
           stored == Entry(DocOf(task.pre), Split(task.id))
       IN (task.op \in {"get", "has"} /\ ValidID(task.id) /\ IsSettled(1, k)
             /\ Readable(task.pre))
          => /\ stored \in Falsy
                  => task.at = Resolve(IF task.op = "get" THEN stored ELSE Bool(TRUE))
             /\ (stored = Null \/ (stored = Undef /\ task.id # IdConstructor))
                  => task.at = Resolve(IF task.op = "get" THEN Null ELSE Bool(FALSE))

C30_Witness ==
  /\ Len(tasks[1]) = 3
  /\ tasks[1][2].op = "set" /\ tasks[1][2].val = Num(0) /\ tasks[1][2].st = "resolved"
  /\ Entry(DocOf(tasks[1][2].pre), Split(tasks[1][2].id)) = Undef
  /\ tasks[1][3].op = "has" /\ tasks[1][3].id = tasks[1][2].id
  /\ tasks[1][3].at = Resolve(Bool(TRUE))

C30_WitnessNull ==
  /\ Len(tasks[1]) = 3
  /\ GetAndHas(2, 3)
  /\ Entry(DocOf(tasks[1][2].pre), Split(tasks[1][2].id)) = Null
  /\ tasks[1][2].at = Resolve(Null)
  /\ tasks[1][3].at = Resolve(Bool(FALSE))

(***************************************************************************)
(* SpecRoot: one store instance over a database file that holds a map and   *)
(* a backup file that holds any JSON text: a map, an array, a number, a     *)
(* string or null.  The caller loads the backup and reads and writes.       *)
(***************************************************************************)
RootCalls ==
  {ArgCall("loadBackup", BakJson, Undef), ArgCall("backup", BakJson, Undef),
   ArgCall("clear", <<>>, Bool(TRUE)), ArgCall("all", <<>>, Undef),
   ArgCall("set", IdA, Num(2)), ArgCall("set", IdAB, Num(2)),
   ArgCall("add", IdA, Num(1)), ArgCall("push", IdB, Num(1)),
   ArgCall("delete", IdA, Undef)}

RootBackups == {DocB1, Arr(<<Num(1)>>), Num(5), Str("s"), Null}

RootDisks ==
  {[p \in Paths |-> CASE p = DbFile -> Json(DocA1) [] p = BakJson -> Json(b) [] OTHER -> Absent] :
     b \in RootBackups}

InitRoot ==
  /\ disk \in RootDisks
  /\ tasks = (1 :> <<InitTask>>)
  /\ trace = <<>>
  /\ lastCall = "none"

InvokeRoot == \E c \in RootCalls : Call(1, c)

NextRoot == InvokeRoot \/ Starts \/ Accesses \/ Reads \/ Writes

SpecRoot == InitRoot /\ [][NextRoot]_vars

(***************************************************************************)
(* C31.  The database file holding a map when the store is opened, it       *)
(* holds a map ever after, whatever set, add, push, delete, clear, backup   *)
(* and loadBackup of a backup file that parses did or failed to do: all()   *)
(* returns a map, and set, add, push and delete are not rejected with a     *)
(* TypeError raised on the root.                                            *)
(***************************************************************************)
C31_RootIsMap ==
  /\ disk[DbFile].t = "json" => disk[DbFile].v.t = "object"
  /\ \A k \in 1..Len(tasks[1]) :
       LET task == tasks[1][k] IN
       /\ (task.op = "all" /\ IsSettled(1, k)) => task.at.res.t = "object"
       /\ task.op \in {"set", "add", "push", "delete"} => task.at # Reject("TypeError")

(***************************************************************************)
(* SpecDel: one store instance over documents that hold values and null,    *)
(* at the top level and nested; the caller stores values and null, asks     *)
(* for entries with has and removes them with delete.                       *)
(***************************************************************************)
DelCalls ==
  {ArgCall("set", IdA, Null), ArgCall("set", IdA, Num(1)), ArgCall("set", IdAB, Null),
   ArgCall("has", IdA, Undef), ArgCall("has", IdAB, Undef),
   ArgCall("delete", IdA, Undef), ArgCall("delete", IdAB, Undef),
   ArgCall("get", IdA, Undef)}

DelDocs ==
  {EmptyMap, Map(IdA :> Null), Map(IdA :> Num(1)), Map(IdA :> Num(0)),
   Map(IdA :> Map(IdB :> Null)), Map(IdA :> Map(IdB :> Num(1)))}

DelDisks ==
  {[p \in Paths |-> IF p = DbFile THEN c ELSE Absent] : c \in {Json(d) : d \in DelDocs}}

InitDel ==
  /\ disk \in DelDisks
  /\ tasks = (1 :> <<InitTask>>)
  /\ trace = <<>>
  /\ lastCall = "none"

InvokeDel == \E c \in DelCalls : Call(1, c)

NextDel == InvokeDel \/ Starts \/ Accesses \/ Reads \/ Writes

SpecDel == InitDel /\ [][NextDel]_vars

\* What has(P) answers on the files d, P being the path of the task.
HasBefore(d, task) == AloneTask(d, [task EXCEPT !.op = "has"]).at.res

(***************************************************************************)
(* C32.  delete(P), P a valid key path, returns what has(P) would have      *)
(* answered on the document it read, and writes the file exactly when that  *)
(* answer is true.                                                          *)
(***************************************************************************)
C32_DeleteAgreesWithHas ==
  \A k \in 1..Len(tasks[1]) :
     LET task == tasks[1][k] IN
     (task.op = "delete" /\ ValidID(task.id) /\ IsSettled(1, k) /\ task.pre[DbFile].t = "json")
     => /\ task.at = Resolve(HasBefore(task.pre, task))
        /\ Wrote(k) <=> HasBefore(task.pre, task) = Bool(TRUE)

\* What get(Q) answers on the document doc, q being the segments of the
\* valid key path Q.
GetAt(doc, q) ==
  LET current == FindWalk(doc, q) IN IF current.t = "undefined" THEN Null ELSE current

(***************************************************************************)
(* C33.  set(P, V) that resolved leaves get(Q) as it was for every valid    *)
(* key path Q such that neither of P and Q is a prefix of the other, read   *)
(* from the file the set left, by this instance or any other.               *)
(***************************************************************************)
C33_SetFrame ==
  \A k \in 1..Len(tasks[1]) :
     LET task == tasks[1][k]
         before == DocOf(task.pre)
         after == DocOf(After(1, k))
     IN (task.op = "set" /\ ValidID(task.id) /\ task.st = "resolved" /\ Readable(task.pre))
        => \A q \in Probes : Apart(Split(task.id), q) => GetAt(after, q) = GetAt(before, q)

====
